---- MODULE Spec2Model ----
(***************************************************************************)
(* MNJ Money API (src/main.py): a FastAPI service over three PostgreSQL    *)
(* tables (contact_us, financial_requests, admin_users).                   *)
(*                                                                         *)
(* A server process handles one request at a time: the handlers are        *)
(* `async def` and never await, so inside one process a handler runs to    *)
(* its end.  Spec is one server process.  SpecRace is two server processes *)
(* against the same database (uvicorn --workers 2), whose statements       *)
(* interleave.  A handler is a sequence of steps, one per round trip to    *)
(* the database; an INSERT or DELETE and the commit that follows it are    *)
(* one step, since no other session can see the uncommitted row.           *)
(*                                                                         *)
(* Strings are sequences of one-character strings, so that str.strip(),    *)
(* len() and ILIKE are computed and not assumed.                           *)
(***************************************************************************)
EXTENDS Integers, Sequences, FiniteSets, TLC

(***************************** bounds **************************************)
\* Total number of rows ever inserted, over the three tables.
MaxInserts == 2
\* Largest reading of the database clock (CURRENT_TIMESTAMP).
MaxClock == 2
\* Largest LIMIT a list request carries.
MaxLimit == 1
\* Largest number of financial requests the database holds when the process starts.
MaxStored == 3

\* get_db_connection: max_retries = 3
max_retries == 3
\* create_admin_user: len(user.password) < 6
MinPasswordLen == 6

\* The server processes.
Workers == {"w1", "w2"}
\* The texts of the exceptions the driver raises.
DbErrors == {"e1"}
UrlNotSet == "DATABASE_URL environment variable is not set"
UniqueViolation == "duplicate key value violates unique constraint"

Entities == {"contact_us", "financial_requests", "admin_users"}

(***************************** strings *************************************)
IsSpace(c) == c \in {" ", "\t", "\n"}

RECURSIVE lstrip(_)
lstrip(s) == IF s # <<>> /\ IsSpace(Head(s)) THEN lstrip(Tail(s)) ELSE s

RECURSIVE rstrip(_)
rstrip(s) == IF s # <<>> /\ IsSpace(s[Len(s)])
             THEN rstrip(SubSeq(s, 1, Len(s) - 1)) ELSE s

\* str.rstrip() in the place of str.strip()
stripTrailing(s) == rstrip(s)

\* str.strip()
strip(s) == rstrip(lstrip(s))

\* Python truthiness of a str
Truthy(s) == s # <<>>

\* Optional[str]: None is <<>>, a present value s is <<s>>.
None == <<>>
Some(s) == <<s>>
\* `if search:` is false for None and for the empty string
OptTruthy(o) == o # None /\ Truthy(o[1])

lower(c) == CASE c = "A" -> "a" [] c = "B" -> "b" [] OTHER -> c

\* PostgreSQL `value ILIKE pattern`: % is any run of characters, _ any one.
RECURSIVE ILike(_, _)
ILike(v, p) ==
    IF p = <<>> THEN v = <<>>
    ELSE IF Head(p) = "%"
         THEN ILike(v, Tail(p)) \/ (v # <<>> /\ ILike(Tail(v), p))
         ELSE /\ v # <<>>
              /\ (Head(p) = "_" \/ lower(Head(v)) = lower(Head(p)))
              /\ ILike(Tail(v), Tail(p))

\* datetime.isoformat()
isoformat(t) == <<"iso", t>>

\* f"%{search}%"
SearchTerm(search) == <<"%">> \o search \o <<"%">>

(***************************** inputs **************************************)
Blanks == {<<>>, <<" ">>}
Names == {<<" ", "A">>, <<"b">>}

\* ContactForm
ContactForms ==
    [name : Names \cup Blanks, email : {<<"e">>, <<" ">>}, message : {<<"m">>, <<>>}]

Ids == 1..(MaxInserts + 1)

(***************************** state ***************************************)
VARIABLES
    urlSet,     \* os.getenv('DATABASE_URL') is set
    app,        \* "starting" | "serving": the lifespan of the FastAPI app
    schema,     \* the three tables exist
    table,      \* table[e]: the committed rows of table e
    seq,        \* seq[e]: the last value of the SERIAL sequence of table e
    now,        \* the last reading of the database clock
    pc,         \* pc[w]: where the handler of process w stands
    req,        \* req[w]: the request process w is handling, or handled last
    conn,       \* conn[w]: "none" | "open" | "closed", the handler's connection
    loc,        \* loc[w]: the handler's local variables
    resp,       \* resp[w]: the response sent for req[w]
    exc,        \* exc[w]: the text of the exception the handler caught, or ""
    gone,       \* gone[e]: the ids whose row a delete request removed from table e
    log         \* log[w]: what the request did: connections opened, statements run,
                \* rows inserted or deleted

vars == <<urlSet, app, schema, table, seq, now, gone, pc, req, conn, loc, resp, exc, log>>
dbvars == <<table, seq, now, gone>>
envvars == <<urlSet, app, schema>>

NoReq == [op |-> "none", arg |-> <<>>]
NoResp == [status |-> 0, detail |-> <<>>, data |-> <<>>]
NoLog == [connects |-> 0, stmts |-> 0, writes |-> 0]

Init ==
    /\ urlSet \in BOOLEAN
    /\ app = "starting"
    /\ schema = FALSE
    /\ table = [e \in Entities |-> {}]
    /\ seq = [e \in Entities |-> 0]
    /\ now = 1
    /\ gone = [e \in Entities |-> {}]
    /\ pc = [w \in Workers |-> "idle"]
    /\ req = [w \in Workers |-> NoReq]
    /\ conn = [w \in Workers |-> "none"]
    /\ loc = [w \in Workers |-> <<>>]
    /\ resp = [w \in Workers |-> NoResp]
    /\ exc = [w \in Workers |-> ""]
    /\ log = [w \in Workers |-> NoLog]

Inserted == seq["contact_us"] + seq["financial_requests"] + seq["admin_users"]

(***************************** connection **********************************)
\* get_db_connection: the outcomes of up to max_retries attempts.  An outcome is
\* "ok" or the text of the exception raised: with no DATABASE_URL the exception
\* of line 19, otherwise that of the last failed attempt.
get_db_connection ==
    IF ~urlSet THEN {UrlNotSet}
    ELSE LET attempts == [1..max_retries -> {"ok"} \cup DbErrors]
         IN  {IF \E i \in 1..max_retries : a[i] = "ok" THEN "ok" ELSE a[max_retries]
                 : a \in attempts}

\* HTTPException(status_code, detail)
\* HTTPException(status_code, detail): the detail is the sequence of the parts it
\* is formatted from
Formatted(status, parts) == [status |-> status, detail |-> parts, data |-> <<>>]
HTTPException(status, detail) == Formatted(status, <<detail>>)
Ok(data) == [status |-> 200, detail |-> <<>>, data |-> data]

(***************************** answers *************************************)
\* The detail of the 500 each handler's `except Exception` answers with; none
\* but that of health_check holds the text of the exception e.
ContactFailure(e) == HTTPException(500, "Error saving your message. Please try again.")
ContactsFailure(e) == HTTPException(500, "Error fetching contacts list")
ContactGetFailure(e) == HTTPException(500, "Error fetching contact")
ContactDeleteFailure(e) == HTTPException(500, "Error deleting contact")
FinancialFailure(e) ==
    HTTPException(500, "Error saving your financial request. Please try again.")
FinancialListFailure(e) == HTTPException(500, "Error fetching financial requests list")
FinancialGetFailure(e) == HTTPException(500, "Error fetching financial request")
FinancialDeleteFailure(e) == HTTPException(500, "Error deleting financial request")
AdminFailure(e) == HTTPException(500, "Error creating admin user")
AdminListFailure(e) == HTTPException(500, "Error fetching admin users list")
AdminGetFailure(e) == HTTPException(500, "Error fetching admin user")
AdminDeleteFailure(e) == HTTPException(500, "Error deleting admin user")
StatisticsFailure(e) == HTTPException(500, "Error fetching statistics")
\* line 298: detail=f"Database connection failed: {str(e)}"
HealthFailure(e) == Formatted(503, <<"Database connection failed: ", e>>)

\* The `except Exception` block of the handler of op, for the exception e.
Failure(op, e) ==
    CASE op = "submit_contact" -> ContactFailure(e)
      [] op = "get_contacts" -> ContactsFailure(e)
      [] op = "get_contact" -> ContactGetFailure(e)
      [] op = "delete_contact" -> ContactDeleteFailure(e)
      [] op = "submit_financial_request" -> FinancialFailure(e)
      [] op = "get_financial_requests" -> FinancialListFailure(e)
      [] op = "get_financial_request" -> FinancialGetFailure(e)
      [] op = "delete_financial_request" -> FinancialDeleteFailure(e)
      [] op = "create_admin_user" -> AdminFailure(e)
      [] op = "get_admin_users" -> AdminListFailure(e)
      [] op = "get_admin_user" -> AdminGetFailure(e)
      [] op = "delete_admin_user" -> AdminDeleteFailure(e)
      [] op = "get_statistics" -> StatisticsFailure(e)
      [] OTHER -> HealthFailure(e)

\* contact["created_at"] = contact["created_at"].isoformat()
ContactRender(r) == [r EXCEPT !.created_at = isoformat(@)]

\* the same for created_at and updated_at
StampedRender(r) ==
    [r EXCEPT !.created_at = isoformat(@), !.updated_at = isoformat(@)]

\* RETURNING id, username, email, full_name, is_active, created_at, updated_at
AdminColumns == {"id", "username", "email", "full_name", "is_active",
                 "created_at", "updated_at"}
AdminRender(r) ==
    [c \in AdminColumns |->
        IF c \in {"created_at", "updated_at"} THEN isoformat(r[c]) ELSE r[c]]

\* The row as the handler of op returns it.
Render(op, r) ==
    CASE op \in {"get_contacts", "get_contact"} -> ContactRender(r)
      [] op \in {"get_financial_requests", "get_financial_request"} -> StampedRender(r)
      [] OTHER -> AdminRender(r)

\* The handler of w ends with response r; e is the exception it caught ("" if none).
Finish(w, r, e) ==
    /\ pc' = [pc EXCEPT ![w] = "done"]
    /\ resp' = [resp EXCEPT ![w] = r]
    /\ exc' = [exc EXCEPT ![w] = e]

\* A request arrives at process w, which is serving and waiting for one.
Arrive(w, op, arg) ==
    /\ app = "serving"
    /\ pc[w] = "idle"
    /\ req' = [req EXCEPT ![w] = [op |-> op, arg |-> arg]]
    /\ UNCHANGED loc

\* The request of w has run one more statement, which changed n rows.
\* The response of w is sent: the process waits for its next request.
Respond(w) ==
    /\ pc[w] = "done"
    /\ pc' = [pc EXCEPT ![w] = "idle"]
    /\ req' = [req EXCEPT ![w] = NoReq]
    /\ conn' = [conn EXCEPT ![w] = "none"]
    /\ loc' = [loc EXCEPT ![w] = <<>>]
    /\ resp' = [resp EXCEPT ![w] = NoResp]
    /\ exc' = [exc EXCEPT ![w] = ""]
    /\ log' = [log EXCEPT ![w] = NoLog]
    /\ UNCHANGED <<envvars, dbvars>>

\* The request passed validation: the handler enters its try block, nothing is
\* answered yet.
Proceed(w, next) ==
    /\ pc' = [pc EXCEPT ![w] = next]
    /\ resp' = [resp EXCEPT ![w] = NoResp]
    /\ exc' = [exc EXCEPT ![w] = ""]

Stmt(w, n) == log' = [log EXCEPT ![w].stmts = @ + 1, ![w].writes = @ + n]

\* The request is refused before the handler's try block: no connection.
Reject(w, r) ==
    /\ Finish(w, r, "")
    /\ UNCHANGED <<conn, log>>

\* The handler enters its try block with conn = get_db_connection(): on an
\* exception its `except Exception` answers, otherwise the handler
\* goes on with the statement `first`.
Enter(w, op, first) ==
    \E r \in get_db_connection :
        IF r = "ok"
        THEN /\ conn' = [conn EXCEPT ![w] = "open"]
             /\ log' = [log EXCEPT ![w].connects = @ + 1]
             /\ Proceed(w, first)
        ELSE /\ Finish(w, Failure(op, r), r)
             /\ UNCHANGED <<conn, log>>

\* A statement (or the commit after it) of the handler raises e: nothing is
\* committed, and the handler's `except Exception` answers.  The
\* connection is not closed on this path.
Raises(w, op, at) ==
    /\ pc[w] \in at /\ req[w].op = op
    /\ \E e \in DbErrors :
         /\ Finish(w, Failure(op, e), e)
         /\ Stmt(w, 0)
    /\ UNCHANGED <<envvars, dbvars, req, conn, loc>>

\* The handler of op stands at `at`; a statement on a table succeeds only if the
\* table exists.
Reachable(w, op, at) == pc[w] = at /\ req[w].op = op /\ schema

(***************************** startup *************************************)
\* create_tables: CREATE TABLE IF NOT EXISTS x 3; every exception is caught
\* and printed.
create_tables ==
    \E r \in get_db_connection :
        schema' = IF r = "ok" THEN TRUE ELSE schema

\* lifespan: create_tables(), then the application serves.
lifespan ==
    /\ app = "starting"
    /\ create_tables
    /\ app' = "serving"
    /\ UNCHANGED <<urlSet, dbvars, pc, req, conn, loc, resp, exc, log>>

\* CURRENT_TIMESTAMP, the default of created_at and updated_at: the clock is read
\* when a row is inserted, and does not go back.  Nothing makes two readings differ.
CurrentTimestamp == now..MaxClock

\* SELECT MAX(id) + 1 in the place of the sequence
nextvalMaxId(e) ==
    IF table[e] = {} THEN 1
    ELSE (CHOOSE m \in {r.id : r \in table[e]} : \A r \in table[e] : r.id <= m) + 1

\* id SERIAL PRIMARY KEY: the default of id is the next value of the table's
\* sequence, which never goes back, whatever happens to the rows.
nextval(e) == seq[e] + 1

(***************************** contact_us **********************************)
\* submit_contact without the check of the message
ContactBlankNoMessage(form) ==
    ~Truthy(strip(form.name)) \/ ~Truthy(strip(form.email))

\* line 307
ContactBlank(form) ==
    ~Truthy(strip(form.name)) \/ ~Truthy(strip(form.email)) \/ ~Truthy(strip(form.message))

\* POST /api/contact
submit_contact(w) ==
    \/ \E form \in ContactForms :
         /\ Arrive(w, "submit_contact", form)
         /\ IF ContactBlank(form)
            THEN Reject(w, HTTPException(400, "All fields are required"))
            ELSE Enter(w, "submit_contact", "insert")
         /\ UNCHANGED <<envvars, dbvars>>
    \/ /\ Reachable(w, "submit_contact", "insert")
       /\ Inserted < MaxInserts
       /\ \E t \in CurrentTimestamp :
            LET form == req[w].arg
                id == nextval("contact_us")
                row == [id |-> id, name |-> strip(form.name), email |-> strip(form.email),
                        message |-> strip(form.message), created_at |-> t]
            IN  /\ seq' = [seq EXCEPT !["contact_us"] = id]
                /\ now' = t
                /\ UNCHANGED gone
                /\ table' = [table EXCEPT !["contact_us"] = @ \cup {row}]
                /\ conn' = [conn EXCEPT ![w] = "closed"]
                /\ Finish(w, Ok([id |-> id, created_at |-> isoformat(t)]), "")
                /\ Stmt(w, 1)
       /\ UNCHANGED <<envvars, req, loc>>
    \/ Raises(w, "submit_contact", {"insert"})

(***************************** queries *************************************)
Min(a, b) == IF a < b THEN a ELSE b

\* The sequences that hold every element of S once.
RECURSIVE Perms(_)
Perms(S) == IF S = {} THEN {<<>>}
            ELSE UNION {{<<x>> \o p : p \in Perms(S \ {x})} : x \in S}

\* ORDER BY created_at DESC: the orders the database may return the rows in.
\* Rows with equal created_at come in any order, which need not be the same
\* from one statement to the next.
OrderByCreatedAtDesc(rows) ==
    {s \in Perms(rows) :
        \A i, j \in 1..Len(s) : i < j => s[i].created_at >= s[j].created_at}

\* LIMIT limit OFFSET offset
LimitOffset(s, limit, offset) == SubSeq(s, offset + 1, Min(offset + limit, Len(s)))

\* A WHERE clause is a sequence of conditions joined by AND; a condition takes
\* its values from the statement's parameters, in order.
\*   ilike: (c1 ILIKE %s OR c2 ILIKE %s OR c3 ILIKE %s)     three parameters
\*   eq:    col = %s                                        one parameter
\*   true:  col = TRUE                                      no parameter
ILikeAny(cols) == [kind |-> "ilike", cols |-> cols]
EqParam(col) == [kind |-> "eq", cols |-> <<col>>]
IsTrue(col) == [kind |-> "true", cols |-> <<col>>]

Arity(c) == CASE c.kind = "ilike" -> 3 [] c.kind = "eq" -> 1 [] OTHER -> 0

RECURSIVE Placeholders(_)
Placeholders(conds) ==
    IF conds = <<>> THEN 0 ELSE Arity(Head(conds)) + Placeholders(Tail(conds))

RECURSIVE Where(_, _, _)
Where(row, conds, params) ==
    IF conds = <<>> THEN TRUE
    ELSE LET c == Head(conds)
             rest == SubSeq(params, Arity(c) + 1, Len(params))
             here == CASE c.kind = "ilike" ->
                             \E i \in 1..3 : ILike(row[c.cols[i]], params[i])
                       [] c.kind = "eq" -> row[c.cols[1]] = params[1]
                       [] OTHER -> row[c.cols[1]] = TRUE
         IN  here /\ Where(row, Tail(conds), rest)

\* cur.execute(query, params) raises when the number of parameters is not the
\* number of placeholders.
Bound(conds, extra, params) == Len(params) = Placeholders(conds) + extra

\* What a list handler builds: the conditions shared by query and count_query,
\* the parameters of the page query and those of the count query.
Built(conds, params, countParams) ==
    [conds |-> conds, params |-> params, countParams |-> countParams]

\* SELECT ... FROM e [WHERE ...] ORDER BY created_at DESC LIMIT %s OFFSET %s
SelectPage(e, q) ==
    LET n == Len(q.params)
        filter == SubSeq(q.params, 1, n - 2)
        rows == {r \in table[e] : Where(r, q.conds, filter)}
    IN  {LimitOffset(s, q.params[n - 1], q.params[n]) : s \in OrderByCreatedAtDesc(rows)}

\* SELECT COUNT(*) FROM e [WHERE ...]
SelectCount(e, q) == Cardinality({r \in table[e] : Where(r, q.conds, q.countParams)})

\* psycopg.ProgrammingError
WrongParameters == "the query has a different number of placeholders"

\* The list handlers: page query, then count query, then close and answer.
List(w, op, e, q) ==
    \/ /\ Reachable(w, op, "page")
       /\ IF Bound(q.conds, 2, q.params)
          THEN /\ \E page \in SelectPage(e, q) :
                    loc' = [loc EXCEPT ![w] = page]
               /\ pc' = [pc EXCEPT ![w] = "count"]
               /\ UNCHANGED <<resp, exc>>
          ELSE /\ Finish(w, Failure(op, WrongParameters), WrongParameters)
               /\ UNCHANGED loc
       /\ Stmt(w, 0)
       /\ UNCHANGED <<envvars, dbvars, req, conn>>
    \/ /\ Reachable(w, op, "count")
       /\ IF Bound(q.conds, 0, q.countParams)
          THEN /\ conn' = [conn EXCEPT ![w] = "closed"]
               /\ Finish(w, Ok([total |-> SelectCount(e, q),
                                items |-> [i \in 1..Len(loc[w]) |-> Render(op, loc[w][i])]]), "")
          ELSE /\ Finish(w, Failure(op, WrongParameters), WrongParameters)
               /\ UNCHANGED conn
       /\ Stmt(w, 0)
       /\ UNCHANGED <<envvars, dbvars, req, loc>>
    \/ Raises(w, op, {"page", "count"})

\* ... FROM e WHERE id = %s
WhereId(e, id) == {r \in table[e] : r.id = id}

\* a delete handler without its `if not deleted_contact` check
DeleteAnswerUnchecked(hit, deleted, notFound) ==
    Ok([success |-> TRUE, message |-> deleted])

\* `if not deleted_contact: raise HTTPException(404)`, else the success message
DeleteAnswer(hit, deleted, notFound) ==
    IF hit = {} THEN HTTPException(404, notFound)
    ELSE Ok([success |-> TRUE, message |-> deleted])

\* SELECT ... FROM e WHERE id = %s; close; 404 if no row
GetById(w, op, e, notFound) ==
    \/ /\ Reachable(w, op, "select")
       /\ LET hit == WhereId(e, req[w].arg.id)
          IN  Finish(w, IF hit = {} THEN HTTPException(404, notFound)
                        ELSE Ok(Render(op, CHOOSE r \in hit : TRUE)), "")
       /\ conn' = [conn EXCEPT ![w] = "closed"]
       /\ Stmt(w, 0)
       /\ UNCHANGED <<envvars, dbvars, req, loc>>
    \/ Raises(w, op, {"select"})

\* DELETE FROM e WHERE id = %s RETURNING id; commit; close; 404 if no row
DeleteById(w, op, e, deleted, notFound) ==
    \/ /\ Reachable(w, op, "delete")
       /\ LET hit == WhereId(e, req[w].arg.id)
          IN  /\ table' = [table EXCEPT ![e] = @ \ hit]
              /\ gone' = [gone EXCEPT ![e] = @ \cup {r.id : r \in hit}]
              /\ Finish(w, DeleteAnswer(hit, deleted, notFound), "")
              /\ Stmt(w, Cardinality(hit))
       /\ conn' = [conn EXCEPT ![w] = "closed"]
       /\ UNCHANGED <<envvars, seq, now, req, loc>>
    \/ Raises(w, op, {"delete"})

\* A request with nothing to validate arrives: the handler starts in its try block.
Begin(w, op, arg, first) ==
    /\ Arrive(w, op, arg)
    /\ Enter(w, op, first)
    /\ UNCHANGED <<envvars, dbvars>>

\* limit and offset of a list request: a first page, or the page after it
ListArgs == UNION {{[limit |-> l, offset |-> 0], [limit |-> l, offset |-> l]} : l \in 1..MaxLimit}
Searches == {None, Some(<<"a">>)}

(***************************** contacts ************************************)
\* get_contacts, lines 351-365 and 370
ContactsQuery(a) ==
    LET search == OptTruthy(a.search)
        term == SearchTerm(a.search[1])
        conds == IF search THEN <<ILikeAny(<<"name", "email", "message">>)>> ELSE <<>>
        params == (IF search THEN <<term, term, term>> ELSE <<>>) \o <<a.limit, a.offset>>
    IN  Built(conds, params, IF search THEN SubSeq(params, 1, 3) ELSE <<>>)

\* limit, offset, search
ContactsArgs ==
    {[limit |-> la.limit, offset |-> la.offset, search |-> s] :
        la \in ListArgs, s \in Searches}

\* GET /api/contacts
get_contacts(w) ==
    \/ \E a \in ContactsArgs : Begin(w, "get_contacts", a, "page")
    \/ List(w, "get_contacts", "contact_us", ContactsQuery(req[w].arg))

\* GET /api/contacts/{contact_id}
get_contact(w) ==
    \/ \E id \in Ids : Begin(w, "get_contact", [id |-> id], "select")
    \/ GetById(w, "get_contact", "contact_us", "Contact not found")

\* DELETE /api/contacts/{contact_id}
delete_contact(w) ==
    \/ \E id \in Ids : Begin(w, "delete_contact", [id |-> id], "delete")
    \/ DeleteById(w, "delete_contact", "contact_us", "Contact deleted successfully",
                  "Contact not found")

(***************************** financial_requests **************************)
FinFields == <<"employment_status", "employment_type", "has_pay_slips",
               "previous_funds_history", "service_interest", "preferred_language",
               "full_name", "phone_number", "email_address">>
FinFieldSet == {FinFields[i] : i \in 1..9}

Services == {<<"l">>, <<" ", "m">>}

\* FinancialRequestForm: the valid forms, and those with one blank field
FinBase(svc) == [f \in FinFieldSet |->
                    CASE f = "service_interest" -> svc
                      [] f = "full_name" -> <<"A">>
                      [] OTHER -> <<"x">>]
FinancialForms ==
    {FinBase(svc) : svc \in Services}
    \cup {[FinBase(<<"l">>) EXCEPT ![f] = b] : f \in FinFieldSet, b \in Blanks}

\* lines 463-469
FinancialBlank(form) == ~(\A i \in 1..9 : Truthy(strip(form[FinFields[i]])))

\* POST /api/financial-requests
submit_financial_request(w) ==
    \/ \E form \in FinancialForms :
         /\ Arrive(w, "submit_financial_request", form)
         /\ IF FinancialBlank(form)
            THEN Reject(w, HTTPException(400, "All fields are required"))
            ELSE Enter(w, "submit_financial_request", "insert")
         /\ UNCHANGED <<envvars, dbvars>>
    \/ /\ Reachable(w, "submit_financial_request", "insert")
       /\ Inserted < MaxInserts
       /\ \E t \in CurrentTimestamp :
            LET form == req[w].arg
                id == nextval("financial_requests")
                row == [f \in FinFieldSet \cup {"id", "created_at", "updated_at"} |->
                          CASE f = "id" -> id
                            [] f \in {"created_at", "updated_at"} -> t
                            [] OTHER -> strip(form[f])]
            IN  /\ seq' = [seq EXCEPT !["financial_requests"] = id]
                /\ now' = t
                /\ UNCHANGED gone
                /\ table' = [table EXCEPT !["financial_requests"] = @ \cup {row}]
                /\ conn' = [conn EXCEPT ![w] = "closed"]
                /\ Finish(w, Ok([id |-> id, created_at |-> isoformat(t),
                                 updated_at |-> isoformat(t)]), "")
                /\ Stmt(w, 1)
       /\ UNCHANGED <<envvars, req, loc>>
    \/ Raises(w, "submit_financial_request", {"insert"})

\* get_financial_requests with the count bound to `params[:len(params) - 1]`
FinancialQuerySliceOne(a) ==
    LET search == OptTruthy(a.search)
        service == OptTruthy(a.service_type)
        term == SearchTerm(a.search[1])
        conds == (IF search
                  THEN <<ILikeAny(<<"full_name", "email_address", "phone_number">>)>>
                  ELSE <<>>)
                 \o (IF service THEN <<EqParam("service_interest")>> ELSE <<>>)
        params == (IF search THEN <<term, term, term>> ELSE <<>>)
                  \o (IF service THEN <<a.service_type[1]>> ELSE <<>>)
                  \o <<a.limit, a.offset>>
    IN  Built(conds, params,
              IF conds # <<>> THEN SubSeq(params, 1, Len(params) - 1) ELSE <<>>)

\* get_financial_requests, lines 540-560 and 565
FinancialQuery(a) ==
    LET search == OptTruthy(a.search)
        service == OptTruthy(a.service_type)
        term == SearchTerm(a.search[1])
        conds == (IF search
                  THEN <<ILikeAny(<<"full_name", "email_address", "phone_number">>)>>
                  ELSE <<>>)
                 \o (IF service THEN <<EqParam("service_interest")>> ELSE <<>>)
        params == (IF search THEN <<term, term, term>> ELSE <<>>)
                  \o (IF service THEN <<a.service_type[1]>> ELSE <<>>)
                  \o <<a.limit, a.offset>>
    IN  Built(conds, params,
              IF conds # <<>> THEN SubSeq(params, 1, Len(params) - 2) ELSE <<>>)

ServiceTypes == {None, Some(<<>>), Some(<<"l">>)}

\* limit, offset, search, service_type
FinancialArgs ==
    {[limit |-> la.limit, offset |-> la.offset, search |-> s, service_type |-> t] :
        la \in ListArgs, s \in Searches, t \in ServiceTypes}

\* GET /api/financial-requests
get_financial_requests(w) ==
    \/ \E a \in FinancialArgs :
         Begin(w, "get_financial_requests", a, "page")
    \/ List(w, "get_financial_requests", "financial_requests", FinancialQuery(req[w].arg))

\* GET /api/financial-requests/{request_id}
get_financial_request(w) ==
    \/ \E id \in Ids : Begin(w, "get_financial_request", [id |-> id], "select")
    \/ GetById(w, "get_financial_request", "financial_requests",
               "Financial request not found")

\* DELETE /api/financial-requests/{request_id}
delete_financial_request(w) ==
    \/ \E id \in Ids : Begin(w, "delete_financial_request", [id |-> id], "delete")
    \/ DeleteById(w, "delete_financial_request", "financial_requests",
                  "Financial request deleted successfully",
                  "Financial request not found")

(***************************** admin_users *********************************)
Password6 == <<"s", "e", "c", "r", "e", "t">>
Password5 == <<"s", "e", "c", "r", " ">>
Spaces3 == <<" ", " ", " ">>
Spaces6 == <<" ", " ", " ", " ", " ", " ">>

AdminBase == [username |-> <<"u">>, email |-> <<"x">>, password |-> Password6,
              full_name |-> <<"n">>]

\* AdminUserCreate: the valid forms, those with one defect, and one with two
AdminForms ==
    {AdminBase, [AdminBase EXCEPT !.username = <<" ", "u">>, !.email = <<"y", " ">>],
     [AdminBase EXCEPT !.username = <<"v">>]}
    \cup {[AdminBase EXCEPT !.username = <<" ">>], [AdminBase EXCEPT !.email = <<>>],
          [AdminBase EXCEPT !.full_name = <<" ">>]}
    \cup {[AdminBase EXCEPT !.password = p] : p \in {Password5, Spaces3, Spaces6}}
    \cup {[AdminBase EXCEPT !.username = <<>>, !.password = Password5]}

\* bcrypt.gensalt()
Salts == {"salt"}

\* hash_password: bcrypt.hashpw(password, salt); the hash names its salt, and
\* checkpw(p, h) holds exactly for the password it was made from.
hash_password(password, salt) == [salt |-> salt, of |-> password]
verify_password(plain, hashed) == hashed = hash_password(plain, hashed.salt)

\* line 685
AdminBlank(user) ==
    ~(/\ Truthy(strip(user.username)) /\ Truthy(strip(user.email))
      /\ Truthy(strip(user.password)) /\ Truthy(strip(user.full_name)))

\* the length check off by one
WeakPasswordBelowFive(user) == Len(user.password) < MinPasswordLen - 1

\* line 688
WeakPassword(user) == Len(user.password) < MinPasswordLen

\* the pre-check without `OR email = %s`
ExistingUsername(username, email) ==
    {r \in table["admin_users"] : r.username = username}

\* SELECT id FROM admin_users WHERE username = %s OR email = %s
Existing(username, email) ==
    {r \in table["admin_users"] : r.username = username \/ r.email = email}

\* The UNIQUE constraints of admin_users (lines 141 and 145) reject the row.
ViolatesUnique(row) ==
    \E r \in table["admin_users"] : r.username = row.username \/ r.email = row.email

\* POST /api/admin-users
create_admin_user(w) ==
    \/ \E user \in AdminForms :
         /\ Arrive(w, "create_admin_user", user)
         /\ IF AdminBlank(user)
            THEN Reject(w, HTTPException(400, "All fields are required"))
            ELSE IF WeakPassword(user)
            THEN Reject(w, HTTPException(400, "Password must be at least 6 characters long"))
            ELSE Enter(w, "create_admin_user", "precheck")
         /\ UNCHANGED <<envvars, dbvars>>
    \/ /\ Reachable(w, "create_admin_user", "precheck")
       /\ LET user == req[w].arg
          IN  IF Existing(strip(user.username), strip(user.email)) # {}
              THEN Finish(w, HTTPException(400, "Username or email already exists"), "")
              ELSE /\ pc' = [pc EXCEPT ![w] = "insert"]
                   /\ UNCHANGED <<resp, exc>>
       /\ Stmt(w, 0)
       /\ UNCHANGED <<envvars, dbvars, req, conn, loc>>
    \/ /\ Reachable(w, "create_admin_user", "insert")
       /\ Inserted < MaxInserts
       /\ \E t \in CurrentTimestamp, salt \in Salts :
            LET user == req[w].arg
                id == nextval("admin_users")
                row == [id |-> id, username |-> strip(user.username),
                        email |-> strip(user.email),
                        password_hash |-> hash_password(user.password, salt),
                        full_name |-> strip(user.full_name), is_active |-> TRUE,
                        created_at |-> t, updated_at |-> t]
            IN  /\ seq' = [seq EXCEPT !["admin_users"] = id]
                /\ now' = t
                /\ UNCHANGED gone
                /\ IF ViolatesUnique(row)
                   THEN /\ Finish(w, Failure("create_admin_user", UniqueViolation), UniqueViolation)
                        /\ Stmt(w, 0)
                        /\ UNCHANGED <<table, conn>>
                   ELSE /\ table' = [table EXCEPT !["admin_users"] = @ \cup {row}]
                        /\ conn' = [conn EXCEPT ![w] = "closed"]
                        /\ Finish(w, Ok(AdminRender(row)), "")
                        /\ Stmt(w, 1)
       /\ UNCHANGED <<envvars, req, loc>>
    \/ Raises(w, "create_admin_user", {"precheck", "insert"})

\* get_admin_users, lines 752-771 and 776
AdminQuery(a) ==
    LET search == OptTruthy(a.search)
        term == SearchTerm(a.search[1])
        conds == (IF a.active_only THEN <<IsTrue("is_active")>> ELSE <<>>)
                 \o (IF search THEN <<ILikeAny(<<"username", "email", "full_name">>)>>
                     ELSE <<>>)
        params == (IF search THEN <<term, term, term>> ELSE <<>>) \o <<a.limit, a.offset>>
    IN  Built(conds, params,
              IF conds # <<>> THEN SubSeq(params, 1, Len(params) - 2) ELSE <<>>)

AdminSearches == {None, Some(<<"U">>)}

\* limit, offset, search, active_only
AdminArgs ==
    {[limit |-> la.limit, offset |-> la.offset, search |-> s, active_only |-> active] :
        la \in ListArgs, s \in AdminSearches, active \in BOOLEAN}

\* GET /api/admin-users
get_admin_users(w) ==
    \/ \E a \in AdminArgs : Begin(w, "get_admin_users", a, "page")
    \/ List(w, "get_admin_users", "admin_users", AdminQuery(req[w].arg))

\* GET /api/admin-users/{user_id}
get_admin_user(w) ==
    \/ \E id \in Ids : Begin(w, "get_admin_user", [id |-> id], "select")
    \/ GetById(w, "get_admin_user", "admin_users", "Admin user not found")

\* DELETE /api/admin-users/{user_id}: delete_by_id of section 4.4 of the
\* specification; the handler is not among the source lines at hand.
delete_admin_user(w) ==
    \/ \E id \in Ids : Begin(w, "delete_admin_user", [id |-> id], "delete")
    \/ DeleteById(w, "delete_admin_user", "admin_users", "Admin user deleted successfully",
                  "Admin user not found")

(***************************** statistics, health **************************)
\* the breakdown without its ORDER BY count DESC
ServiceBreakdownUnordered ==
    LET rows == table["financial_requests"]
    IN  Perms({[service_interest |-> s,
                count |-> Cardinality({r \in rows : r.service_interest = s})]
                  : s \in {r.service_interest : r \in rows}})

\* SELECT service_interest, COUNT(*) as count FROM financial_requests
\* GROUP BY service_interest ORDER BY count DESC: groups of equal count come in
\* any order.
ServiceBreakdown ==
    LET rows == table["financial_requests"]
        groups == {[service_interest |-> s,
                    count |-> Cardinality({r \in rows : r.service_interest = s})]
                      : s \in {r.service_interest : r \in rows}}
    IN  {s \in Perms(groups) : \A i, j \in 1..Len(s) : i < j => s[i].count >= s[j].count}

\* GET /api/statistics
get_statistics(w) ==
    \/ Begin(w, "get_statistics", <<>>, "contact_count")
    \/ /\ Reachable(w, "get_statistics", "contact_count")
       /\ loc' = [loc EXCEPT ![w] = <<Cardinality(table["contact_us"])>>]
       /\ pc' = [pc EXCEPT ![w] = "financial_count"]
       /\ Stmt(w, 0)
       /\ UNCHANGED <<envvars, dbvars, req, conn, resp, exc>>
    \/ /\ Reachable(w, "get_statistics", "financial_count")
       /\ loc' = [loc EXCEPT ![w] = Append(@, Cardinality(table["financial_requests"]))]
       /\ pc' = [pc EXCEPT ![w] = "service_breakdown"]
       /\ Stmt(w, 0)
       /\ UNCHANGED <<envvars, dbvars, req, conn, resp, exc>>
    \/ /\ Reachable(w, "get_statistics", "service_breakdown")
       /\ \E service_breakdown \in ServiceBreakdown :
            Finish(w, Ok([contact_requests |-> loc[w][1],
                          financial_requests |-> loc[w][2],
                          service_breakdown |-> service_breakdown,
                          total_requests |-> loc[w][1] + loc[w][2]]), "")
       /\ conn' = [conn EXCEPT ![w] = "closed"]
       /\ Stmt(w, 0)
       /\ UNCHANGED <<envvars, dbvars, req, loc>>
    \/ Raises(w, "get_statistics",
              {"contact_count", "financial_count", "service_breakdown"})

\* GET /api/health
health_check(w) ==
    \/ Begin(w, "health_check", <<>>, "select1")
    \/ /\ pc[w] = "select1" /\ req[w].op = "health_check"
       /\ conn' = [conn EXCEPT ![w] = "closed"]
       /\ Finish(w, Ok([status |-> "healthy", database |-> "connected"]), "")
       /\ Stmt(w, 0)
       /\ UNCHANGED <<envvars, dbvars, req, loc>>
    \/ Raises(w, "health_check", {"select1"})

(***************************** specifications ******************************)
\* One request after the other in a server process.
Process(w) ==
    \/ Respond(w)
    \/ health_check(w)
    \/ submit_contact(w)
    \/ get_contacts(w)
    \/ get_contact(w)
    \/ delete_contact(w)
    \/ submit_financial_request(w)
    \/ get_financial_requests(w)
    \/ get_financial_request(w)
    \/ delete_financial_request(w)
    \/ create_admin_user(w)
    \/ get_admin_users(w)
    \/ get_admin_user(w)
    \/ delete_admin_user(w)
    \/ get_statistics(w)

\* One server process.
Next ==
    \/ lifespan
    \/ Process("w1")

Spec == Init /\ [][Next]_vars

\* Two server processes creating admin users.
NextRace ==
    \/ lifespan
    \/ \E w \in Workers : Respond(w)
    \/ create_admin_user("w1")
    \/ create_admin_user("w2")

SpecRace == Init /\ [][NextRace]_vars

\* The tables outlive the process (CREATE TABLE IF NOT EXISTS): the rows that
\* earlier runs stored, as submit_financial_request and submit_contact store them.
StoredFinancial(svc) ==
    {[f \in FinFieldSet \cup {"id", "created_at", "updated_at"} |->
         CASE f = "id" -> i
           [] f \in {"created_at", "updated_at"} -> 1
           [] f = "service_interest" -> svc[i]
           [] OTHER -> strip(FinBase(svc[i])[f])] : i \in DOMAIN svc}

StoredContacts(n) ==
    {[id |-> i, name |-> <<"b">>, email |-> <<"e">>, message |-> <<"m">>,
      created_at |-> 1] : i \in 1..n}

\* The process starts on a database that holds up to MaxStored financial
\* requests and up to one contact.
InitStats ==
    /\ urlSet \in BOOLEAN
    /\ app = "starting"
    /\ schema = FALSE
    /\ \E n \in 0..MaxStored, c \in 0..1 :
         \E svc \in [1..n -> {strip(x) : x \in Services}] :
            /\ table = [e \in Entities |->
                          CASE e = "financial_requests" -> StoredFinancial(svc)
                            [] e = "contact_us" -> StoredContacts(c)
                            [] OTHER -> {}]
            /\ seq = [e \in Entities |->
                          CASE e = "financial_requests" -> n
                            [] e = "contact_us" -> c
                            [] OTHER -> 0]
    /\ now = 1
    /\ gone = [e \in Entities |-> {}]
    /\ pc = [w \in Workers |-> "idle"]
    /\ req = [w \in Workers |-> NoReq]
    /\ conn = [w \in Workers |-> "none"]
    /\ loc = [w \in Workers |-> <<>>]
    /\ resp = [w \in Workers |-> NoResp]
    /\ exc = [w \in Workers |-> ""]
    /\ log = [w \in Workers |-> NoLog]

\* One server process answering statistics between creates and deletes of
\* financial requests.
NextStats ==
    \/ lifespan
    \/ Respond("w1")
    \/ submit_financial_request("w1")
    \/ delete_financial_request("w1")
    \/ get_statistics("w1")

SpecStats == InitStats /\ [][NextStats]_vars

\* Two server processes against the same database: w1 answers the reads of
\* several statements while w2 creates and deletes.  Each statement of w1 sees
\* the rows committed when it runs (READ COMMITTED, the default the handlers
\* leave in place).
\* The list of admin users is left out: no handler deletes an admin user between
\* its two statements.
NextInterleave ==
    \/ lifespan
    \/ \E w \in Workers : Respond(w)
    \/ get_contacts("w1")
    \/ get_financial_requests("w1")
    \/ get_statistics("w1")
    \/ submit_contact("w2")
    \/ delete_contact("w2")
    \/ submit_financial_request("w2")
    \/ delete_financial_request("w2")

SpecInterleave == Init /\ [][NextInterleave]_vars

(***************************** properties **********************************)
Done(w) == pc[w] = "done"

CreateOps == {"submit_contact", "submit_financial_request", "create_admin_user"}
GetOps == {"get_contact", "get_financial_request", "get_admin_user"}
DeleteOps == {"delete_contact", "delete_financial_request", "delete_admin_user"}
ListOps == {"get_contacts", "get_financial_requests", "get_admin_users"}

EntityOf(op) ==
    CASE op \in {"submit_contact", "get_contact", "delete_contact", "get_contacts"}
           -> "contact_us"
      [] op \in {"submit_financial_request", "get_financial_request",
                 "delete_financial_request", "get_financial_requests"}
           -> "financial_requests"
      [] OTHER -> "admin_users"

RequiredFields(op) ==
    CASE op = "submit_contact" -> {"name", "email", "message"}
      [] op = "submit_financial_request" -> FinFieldSet
      [] OTHER -> {"username", "email", "password", "full_name"}

\* s is empty or holds nothing but whitespace
BlankField(s) == \A i \in 1..Len(s) : s[i] \in {" ", "\t", "\n"}

HasBlankField(r) == \E f \in RequiredFields(r.op) : BlankField(r.arg[f])

AllFieldsRequired == HTTPException(400, "All fields are required")
Duplicate == HTTPException(400, "Username or email already exists")
WeakCredential == HTTPException(400, "Password must be at least 6 characters long")

\* C1: a create request (contact, financial request, admin user) with a required
\* field that is empty or whitespace-only is answered 400 "All fields are
\* required" as it arrives: it opens no connection, runs no statement and
\* changes no row.
C1_BlankFieldNeverReachesStorage ==
    \A w \in Workers :
        (req[w].op \in CreateOps /\ HasBlankField(req[w]))
        => /\ Done(w)
           /\ resp[w] = AllFieldsRequired
           /\ conn[w] = "none"
           /\ log[w].connects = 0 /\ log[w].stmts = 0 /\ log[w].writes = 0

\* A financial request with a blank phone number was refused while the table
\* held a row.
C1_Witness ==
    /\ Done("w1") /\ req["w1"].op = "submit_financial_request"
    /\ BlankField(req["w1"].arg["phone_number"])
    /\ resp["w1"].status = 400
    /\ table["financial_requests"] # {}

\* The rows of admin_users with the trimmed username or the trimmed email of form u.
SameUser(u) ==
    {r \in table["admin_users"] :
        r.username = strip(u.username) \/ r.email = strip(u.email)}

ValidAdmin(r) ==
    r.op = "create_admin_user" /\ ~HasBlankField(r) /\ Len(r.arg.password) >= 6

\* C2: one create_admin_user after the other: a valid request that meets no
\* storage failure either inserts its row, the only one with its trimmed username
\* or email, and is answered 200, or finds a row with the same trimmed username
\* or email, inserts nothing and is answered 400 "Username or email already
\* exists"; and no two rows of admin_users share a username or an email.
C2_SequentialDuplicateRejected ==
    /\ \A r1, r2 \in table["admin_users"] :
          r1 # r2 => r1.username # r2.username /\ r1.email # r2.email
    /\ \A w \in Workers :
          (Done(w) /\ ValidAdmin(req[w]) /\ exc[w] \notin DbErrors \cup {UrlNotSet})
          => \/ /\ resp[w].status = 200
                /\ log[w].writes = 1
                /\ {r.id : r \in SameUser(req[w].arg)} = {resp[w].data.id}
             \/ /\ resp[w] = Duplicate
                /\ log[w].writes = 0
                /\ SameUser(req[w].arg) # {}

\* A request was refused for its email alone: the row found has another username.
C2_Witness ==
    /\ Done("w1") /\ ValidAdmin(req["w1"]) /\ resp["w1"] = Duplicate
    /\ \E r \in table["admin_users"] :
          r.email = strip(req["w1"].arg.email) /\ r.username # strip(req["w1"].arg.username)

\* C3: a create_admin_user whose insert the UNIQUE constraint rejected, having
\* passed the pre-check while the other process had not inserted yet, is
\* answered with the 400 duplicate error.
C3_RaceAnsweredDuplicate ==
    \A w \in Workers :
        (Done(w) /\ req[w].op = "create_admin_user" /\ exc[w] = UniqueViolation)
        => resp[w] = Duplicate

\* C4: no finished request still holds an open connection.
C4_ConnectionReleased == \A w \in Workers : Done(w) => conn[w] # "open"

\* C5: a delete that meets no storage failure is answered 404 and removes nothing
\* when its id has no row, and otherwise removes the row; the row of an id a
\* delete removed never comes back, and every later get or delete of that id is
\* answered 404.
C5_DeletedStaysNotFound ==
    /\ \A e \in Entities : \A id \in gone[e] : WhereId(e, id) = {}
    /\ \A w \in Workers :
          (Done(w) /\ exc[w] = "" /\ req[w].op \in GetOps \cup DeleteOps)
          => LET e == EntityOf(req[w].op)
                 id == req[w].arg.id
             IN  IF req[w].op \in DeleteOps
                 THEN \/ /\ resp[w].status = 404
                         /\ log[w].writes = 0
                         /\ WhereId(e, id) = {}
                      \/ /\ resp[w].status = 200
                         /\ log[w].writes = 1
                         /\ id \in gone[e]
                 ELSE /\ resp[w].status = 404 <=> WhereId(e, id) = {}
                      /\ resp[w].status \in {200, 404}
                      /\ id \in gone[e] => resp[w].status = 404

\* A contact was deleted, and a later get of its id was answered 404.
C5_Witness ==
    /\ Done("w1") /\ req["w1"].op = "get_contact"
    /\ req["w1"].arg.id \in gone["contact_us"]
    /\ resp["w1"].status = 404

QueryOf(op, a) ==
    CASE op = "get_contacts" -> ContactsQuery(a)
      [] op = "get_financial_requests" -> FinancialQuery(a)
      [] OTHER -> AdminQuery(a)

ArgsOf(op) ==
    CASE op = "get_contacts" -> ContactsArgs
      [] op = "get_financial_requests" -> FinancialArgs
      [] OTHER -> AdminArgs

\* The filter a list request asks for: the search term in one of the entity's
\* three text columns, the service type, active users only.
Sought(r, cols, search) ==
    OptTruthy(search) => \E i \in 1..3 : ILike(r[cols[i]], SearchTerm(search[1]))

Matches(op, a, r) ==
    CASE op = "get_contacts" -> Sought(r, <<"name", "email", "message">>, a.search)
      [] op = "get_financial_requests" ->
            /\ Sought(r, <<"full_name", "email_address", "phone_number">>, a.search)
            /\ OptTruthy(a.service_type) => r.service_interest = a.service_type[1]
      [] OTHER ->
            /\ Sought(r, <<"username", "email", "full_name">>, a.search)
            /\ a.active_only => r.is_active

Matching(op, a) == {r \in table[EntityOf(op)] : Matches(op, a, r)}

Ids2(page) == {page[i].id : i \in 1..Len(page)}

\* C6: in any state of the database, whatever the page query of list(L, 0)
\* returns followed by whatever the page query of list(L, L) returns, for the
\* same filter, are disjoint and together are the first min(2L, total) matching
\* rows in created_at-descending order, also when rows share a created_at.
C6_PagesPartition ==
    \A op \in ListOps : \A a \in ArgsOf(op) :
        a.offset = 0 =>
        LET e == EntityOf(op)
            L == a.limit
            first == QueryOf(op, a)
            second == QueryOf(op, [a EXCEPT !.offset = L])
            rows == Matching(op, a)
            n == Min(2 * L, Cardinality(rows))
        IN  \A p1 \in SelectPage(e, first), p2 \in SelectPage(e, second) :
                /\ Ids2(p1) \cap Ids2(p2) = {}
                /\ p1 \o p2 \in {SubSeq(s, 1, n) : s \in OrderByCreatedAtDesc(rows)}

\* C7, as amended: a list request that is answered 200 returns as total the
\* number of rows matching its filter, whatever its limit and offset, and at
\* most limit items, all of them matching; its count statement is bound to the
\* parameters of the page statement without limit and offset, as many as the
\* statement has placeholders; and a non-empty service_type S returns only rows
\* with service_interest = S, with total the number of such rows when there is
\* no search.
C7_TotalCountsFilter ==
    \A w \in Workers :
        (Done(w) /\ req[w].op \in ListOps)
        => LET op == req[w].op
               a == req[w].arg
               q == QueryOf(op, a)
               rows == Matching(op, a)
               items == resp[w].data.items
           IN  /\ exc[w] # WrongParameters
               /\ q.countParams = SubSeq(q.params, 1, Len(q.params) - 2)
               /\ Bound(q.conds, 0, q.countParams)
               /\ resp[w].status = 200 =>
                    /\ resp[w].data.total = Cardinality(rows)
                    /\ Len(items) <= a.limit
                    /\ \A i \in 1..Len(items) : items[i] \in {Render(op, r) : r \in rows}
                    /\ (op = "get_financial_requests" /\ OptTruthy(a.service_type)) =>
                         /\ \A i \in 1..Len(items) :
                               items[i].service_interest = a.service_type[1]
                         /\ ~OptTruthy(a.search) =>
                               resp[w].data.total = Cardinality(
                                   {r \in table["financial_requests"] :
                                       r.service_interest = a.service_type[1]})

\* Two financial requests are stored, and the list for service type "l" returned
\* the one that has it.
C7_Witness ==
    /\ Done("w1") /\ req["w1"].op = "get_financial_requests"
    /\ req["w1"].arg.service_type = Some(<<"l">>)
    /\ resp["w1"].status = 200
    /\ resp["w1"].data.total = 1 /\ Len(resp["w1"].data.items) = 1
    /\ Cardinality(table["financial_requests"]) = 2

\* C7, as claimed: whenever service_type=S is given, the list returns only rows
\* with service_interest = S and total is the number of such rows.
C7_ServiceTypeAlwaysFilters ==
    \A w \in Workers :
        (/\ Done(w) /\ req[w].op = "get_financial_requests" /\ resp[w].status = 200
         /\ req[w].arg.service_type # None /\ ~OptTruthy(req[w].arg.search))
        => LET S == req[w].arg.service_type[1]
               items == resp[w].data.items
           IN  /\ \A i \in 1..Len(items) : items[i].service_interest = S
               /\ resp[w].data.total = Cardinality(
                      {r \in table["financial_requests"] : r.service_interest = S})

\* C8: a create_admin_user whose fields are not blank and whose password has
\* fewer than 6 characters is answered 400 "Password must be at least 6
\* characters long", not the blank-field error, as it arrives: no connection, no
\* statement, no row; and no row of admin_users holds the hash of a password of
\* fewer than 6 characters.
C8_WeakPasswordRejected ==
    /\ \A w \in Workers :
          (/\ req[w].op = "create_admin_user" /\ ~HasBlankField(req[w])
           /\ Len(req[w].arg.password) < 6)
          => /\ Done(w)
             /\ resp[w] = WeakCredential /\ resp[w] # AllFieldsRequired
             /\ conn[w] = "none"
             /\ log[w].connects = 0 /\ log[w].stmts = 0 /\ log[w].writes = 0
    /\ \A r \in table["admin_users"] : Len(r.password_hash.of) >= 6

\* A password of 5 characters, not blank, was refused as weak while an admin user
\* was stored.
C8_Witness ==
    /\ Done("w1") /\ req["w1"].op = "create_admin_user"
    /\ req["w1"].arg.password = Password5
    /\ resp["w1"] = WeakCredential
    /\ table["admin_users"] # {}

\* C9: the response to a request that met an exception of the storage layer does
\* not hold the text of that exception.
C9_NoExceptionTextInResponse ==
    \A w \in Workers :
        (Done(w) /\ exc[w] # "")
        => \A i \in 1..Len(resp[w].detail) : resp[w].detail[i] # exc[w]

\* C10: with no DATABASE_URL the application never serves.
C10_NoUrlNeverServes == ~urlSet => app # "serving"

TextFields(e) ==
    CASE e = "contact_us" -> {"name", "email", "message"}
      [] e = "financial_requests" -> FinFieldSet
      [] OTHER -> {"username", "email", "full_name"}

Whitespace == {" ", "\t", "\n"}

\* s is not empty and neither starts nor ends with whitespace
Clean(s) == Len(s) > 0 /\ s[1] \notin Whitespace /\ s[Len(s)] \notin Whitespace

\* s is raw without the whitespace raw starts and ends with
TrimOf(s, raw) ==
    /\ Clean(s)
    /\ \E i \in 0..Len(raw) :
          /\ i + Len(s) <= Len(raw)
          /\ SubSeq(raw, i + 1, i + Len(s)) = s
          /\ \A k \in 1..Len(raw) : (k <= i \/ k > i + Len(s)) => raw[k] \in Whitespace

\* C11: a create answered 200 has stored one row under the id it returns, whose
\* text fields are the submitted values without their leading and trailing
\* whitespace; every stored text field is free of leading and trailing
\* whitespace; a get answered 200 returns the text fields of the row of its id;
\* and a stored row stays as it is until it is deleted.
C11_TrimmedStoredAndReturned ==
    /\ [](/\ \A e \in Entities : \A r \in table[e] : \A f \in TextFields(e) : Clean(r[f])
          /\ \A w \in Workers :
                (Done(w) /\ req[w].op \in CreateOps /\ resp[w].status = 200)
                => LET e == EntityOf(req[w].op)
                       hit == WhereId(e, resp[w].data.id)
                   IN  /\ Cardinality(hit) = 1
                       /\ \A r \in hit : \A f \in TextFields(e) :
                             TrimOf(r[f], req[w].arg[f])
          /\ \A w \in Workers :
                (Done(w) /\ req[w].op \in GetOps /\ resp[w].status = 200)
                => LET e == EntityOf(req[w].op)
                       hit == WhereId(e, req[w].arg.id)
                   IN  /\ Cardinality(hit) = 1
                       /\ \A r \in hit : \A f \in TextFields(e) : resp[w].data[f] = r[f])
    /\ [][\A e \in Entities : \A r \in table[e] :
             r \in table'[e] \/ \A r2 \in table'[e] : r2.id # r.id]_vars

\* The contact submitted with the name " A" was read back with the name "A".
C11_Witness ==
    /\ Done("w1") /\ req["w1"].op = "get_contact" /\ resp["w1"].status = 200
    /\ resp["w1"].data.name = <<"A">>
    /\ \E r \in table["contact_us"] : r.id = req["w1"].arg.id /\ r.name = <<"A">>

\* C12: a create answered 200 returns an id above every value its table's
\* sequence had given before, so an id no earlier create returned, whether or
\* not the row of that earlier id is still stored; the step that answers adds to
\* the table exactly one row, which carries the id; and the sequence never goes
\* back.
C12_IdsNeverReused ==
    /\ [](\A w \in Workers :
             (Done(w) /\ req[w].op \in CreateOps /\ resp[w].status = 200)
             => LET e == EntityOf(req[w].op)
                    id == resp[w].data.id
                IN  /\ id \in 1..seq[e]
                    /\ id \notin gone[e]
                    /\ Cardinality(WhereId(e, id)) = 1
                    /\ log[w].writes = 1)
    /\ [][/\ \A e \in Entities : seq'[e] >= seq[e]
          /\ \A w \in Workers :
                (/\ pc[w] # "done" /\ pc'[w] = "done"
                 /\ req'[w].op \in CreateOps /\ resp'[w].status = 200)
                => LET e == EntityOf(req'[w].op)
                       id == resp'[w].data.id
                   IN  /\ id > seq[e]
                       /\ \A r \in table[e] : r.id # id
                       /\ table[e] \subseteq table'[e]
                       /\ Cardinality(table'[e] \ table[e]) = 1
                       /\ \A r \in table'[e] \ table[e] : r.id = id]_vars

\* A contact was created with id 2 after the contact with id 1 had been deleted.
C12_Witness ==
    /\ Done("w1") /\ req["w1"].op = "submit_contact" /\ resp["w1"].status = 200
    /\ resp["w1"].data.id = 2
    /\ 1 \in gone["contact_us"]
    /\ {r.id : r \in table["contact_us"]} = {2}

FinancialRows == table["financial_requests"]

\* C13: with one request at a time, a statistics response answered 200 holds the
\* number of contact rows, the number of financial-request rows, their sum, and
\* a breakdown with one pair for each service_interest among the financial
\* requests, each with the number of rows of that value, in non-increasing
\* order of count.
C13_StatisticsCounts ==
    \A w \in Workers :
        (Done(w) /\ req[w].op = "get_statistics" /\ resp[w].status = 200)
        => LET d == resp[w].data
               b == d.service_breakdown
           IN  /\ d.contact_requests = Cardinality(table["contact_us"])
               /\ d.financial_requests = Cardinality(FinancialRows)
               /\ d.total_requests = d.contact_requests + d.financial_requests
               /\ {b[i].service_interest : i \in 1..Len(b)} =
                     {r.service_interest : r \in FinancialRows}
               /\ \A i, j \in 1..Len(b) :
                     i # j => b[i].service_interest # b[j].service_interest
               /\ \A i \in 1..Len(b) :
                     b[i].count = Cardinality({r \in FinancialRows :
                                      r.service_interest = b[i].service_interest})
               /\ \A i \in 1..(Len(b) - 1) : b[i].count >= b[i + 1].count

\* Statistics over three financial requests, two of one service and one of the
\* other, and one contact.
C13_Witness ==
    /\ Done("w1") /\ req["w1"].op = "get_statistics" /\ resp["w1"].status = 200
    /\ Len(resp["w1"].data.service_breakdown) = 2
    /\ resp["w1"].data.service_breakdown[1].count = 2
    /\ resp["w1"].data.service_breakdown[2].count = 1
    /\ resp["w1"].data.total_requests = 4

RECURSIVE SumCounts(_)
SumCounts(b) == IF b = <<>> THEN 0 ELSE Head(b).count + SumCounts(Tail(b))

\* C14: every list response holds at most as many items as its total, and in
\* every statistics response the counts of the breakdown sum to
\* financial_requests, also when creates and deletes of another process run
\* between the statements of the read.
C14_ReadsSeeOneState ==
    \A w \in Workers :
        /\ (Done(w) /\ req[w].op \in ListOps /\ resp[w].status = 200)
           => Len(resp[w].data.items) <= resp[w].data.total
        /\ (Done(w) /\ req[w].op = "get_statistics" /\ resp[w].status = 200)
           => SumCounts(resp[w].data.service_breakdown) = resp[w].data.financial_requests
====
